---- MODULE Spec2Model ----
(***************************************************************************)
(* OtterShipper: the application record store (crates/db), its name        *)
(* validation, the schema bootstrap (Database::migrate) and the callers    *)
(* that run store operations concurrently over one SQLite file, and the    *)
(* tool surface (crates/server, McpServer) through which create and list   *)
(* are served.                                                             *)
(*                                                                         *)
(* Each sqlx statement (.execute / .fetch_one / .fetch_optional /          *)
(* .fetch_all on the pool) is one atomic step of the storage engine;       *)
(* between two statements of one call any other caller may run.            *)
(***************************************************************************)
EXTENDS Integers, Sequences, FiniteSets, TLC

VARIABLES
    migrationsTable,    \* the _migrations table exists
    migrations,         \* rows of _migrations, in rowid order: [name, applied_at]
    applicationsTable,  \* the applications table exists
    applications,       \* rows of applications: [id, name, created_at]
    nextId,             \* the next value uuid::Uuid::new_v4() yields
    task,               \* per caller: the call in flight, the store's last
                        \* result, what the service returned of it, the tool
                        \* reply made of that, a pool connection held
    calls,              \* number of calls issued so far
    deleted,            \* history: ids whose row a delete removed
    sqlRuns,            \* history: executions of 001_initial_schema.sql
    overlapped,         \* history: callers whose migrate call overlapped another
    vName,              \* validation harness: the name under test
    vOutcome            \* validation harness: what validate_app_name returned

vars == <<migrationsTable, migrations, applicationsTable, applications,
          nextId, task, calls, deleted, sqlRuns, overlapped, vName, vOutcome>>

storeVars == <<migrationsTable, migrations, applicationsTable, applications,
               nextId, task, calls, deleted, sqlRuns, overlapped>>

-----------------------------------------------------------------------------
(* Bounds of the model *)

NumCallers == 2     \* concurrent callers issuing arbitrary calls
MaxRacers == 3      \* callers racing to create one name
MaxClock == 1       \* clock readings are 0..MaxClock
MaxCalls == 3       \* calls issued in one behaviour
MaxPoolWrites == 1  \* creates and deletes issued against the pool
MaxRuns == 2        \* runs of equal characters in a name under validation

-----------------------------------------------------------------------------
(* Strings.  A &str is kept run-length encoded: a sequence of runs         *)
(* [c |-> character, n |-> repetitions >= 1], adjacent runs differing in c, *)
(* so that names around the 255 limit stay small.                          *)

Chars == {"a", "7", "e'", "-", "_", " "}     \* "e'" is U+00E9, two bytes in UTF-8

Utf8Len(c) == IF c = "e'" THEN 2 ELSE 1

IsAlphanumeric(c) == c \in {"a", "7", "e'"}

CodePoint(c) ==
    CASE c = " " -> 32
      [] c = "-" -> 45
      [] c = "7" -> 55
      [] c = "_" -> 95
      [] c = "a" -> 97
      [] c = "e'" -> 233

RECURSIVE ByteLen(_)
ByteLen(s) == IF s = <<>> THEN 0 ELSE Head(s).n * Utf8Len(Head(s).c) + ByteLen(Tail(s))

RECURSIVE CharCount(_)
CharCount(s) == IF s = <<>> THEN 0 ELSE Head(s).n + CharCount(Tail(s))

\* name.chars().next(): None for the empty string
NoChar == "None"

FirstChar(s) == IF s = <<>> THEN NoChar ELSE Head(s).c

Rep(c, n) == <<[c |-> c, n |-> n]>>

-----------------------------------------------------------------------------
(* Validation: crates/db/src/error.rs *)

MaxNameLen == 255

ReasonEmpty == "name cannot be empty"
ReasonLength == "name cannot exceed 255 characters"
ReasonFirst == "name must start with alphanumeric character"
ReasonCharset == "name can only contain alphanumeric characters, hyphens, and underscores"

OkUnit == [kind |-> "Ok", reason |-> ""]
InvalidName(reason) == [kind |-> "InvalidName", reason |-> reason]

\* Option::unwrap() of None: the call does not return, the thread panics
UnwrapPanic == [kind |-> "Panic", reason |-> ""]

NameAllowed(c) == IsAlphanumeric(c) \/ c = "-" \/ c = "_"

\* name.chars().all(..)
AllAllowed(s) == \A i \in 1..Len(s) : NameAllowed(s[i].c)

\* (variant) the check of the first character is missing
validate_app_name_no_first(name) ==
    IF name = <<>> THEN InvalidName(ReasonEmpty)
    ELSE IF ByteLen(name) > MaxNameLen THEN InvalidName(ReasonLength)
    ELSE IF ~AllAllowed(name) THEN InvalidName(ReasonCharset)
    ELSE OkUnit

\* (variant) the check for the empty name is missing
validate_app_name_no_empty(name) ==
    IF ByteLen(name) > MaxNameLen THEN InvalidName(ReasonLength)
    ELSE IF FirstChar(name) = NoChar THEN UnwrapPanic
    ELSE IF ~IsAlphanumeric(FirstChar(name)) THEN InvalidName(ReasonFirst)
    ELSE IF ~AllAllowed(name) THEN InvalidName(ReasonCharset)
    ELSE OkUnit

validate_app_name(name) ==
    IF name = <<>> THEN InvalidName(ReasonEmpty)
    ELSE IF ByteLen(name) > MaxNameLen THEN InvalidName(ReasonLength)
    ELSE IF FirstChar(name) = NoChar THEN UnwrapPanic
    ELSE IF ~IsAlphanumeric(FirstChar(name)) THEN InvalidName(ReasonFirst)
    ELSE IF ~AllAllowed(name) THEN InvalidName(ReasonCharset)
    ELSE OkUnit

-----------------------------------------------------------------------------
(* String order: SQLite's BINARY collation compares the UTF-8 bytes, which  *)
(* orders strings by code point.                                           *)

DropChars(s, m) ==
    IF Head(s).n = m THEN Tail(s)
    ELSE <<[c |-> Head(s).c, n |-> Head(s).n - m]>> \o Tail(s)

Min(a, b) == IF a <= b THEN a ELSE b

RECURSIVE StrLess(_, _)
StrLess(a, b) ==
    IF b = <<>> THEN FALSE
    ELSE IF a = <<>> THEN TRUE
    ELSE IF Head(a).c # Head(b).c THEN CodePoint(Head(a).c) < CodePoint(Head(b).c)
    ELSE StrLess(DropChars(a, Min(Head(a).n, Head(b).n)),
                 DropChars(b, Min(Head(a).n, Head(b).n)))

-----------------------------------------------------------------------------
(* Values *)

Tasks == 1..MaxRacers
Callers == 1..NumCallers

\* chrono::Utc::now().timestamp_millis(): the wall clock, which may be set
\* back between two readings, so a reading is any value of Clock.
Clock == 0..MaxClock

MigrationName == "001_initial_schema"

\* Names the callers pass to the store: two accepted, one rejected.
NameApp == Rep("a", 1) \o Rep("-", 1) \o Rep("7", 1)
NameSvc == Rep("a", 2)
NameBad == Rep("-", 1) \o Rep("a", 1)
ValidNames == {NameApp, NameSvc}
StoreNames == ValidNames \cup {NameBad}

\* Ids the callers pass to get and delete: those generated so far, and 0,
\* an id that no create generates.
ArgIds == 0..(nextId - 1)

NoRow == [id |-> 0, name |-> <<>>, created_at |-> 0]

NoResult == [kind |-> "none", reason |-> "", row |-> NoRow, rows |-> <<>>]

Result(kind) == [NoResult EXCEPT !.kind = kind]

\* The application service (ApplicationService).  create_app, get_app,
\* get_app_by_name, list_apps and delete_app each await the repository's future
\* and return its value as it is; migrate is a method of the database and does
\* not go through the service.
ServiceOps == {"create", "get", "get_by_name", "list", "delete"}

ApplicationServiceWrapsErrors(op, res) ==
    IF op \notin ServiceOps THEN NoResult
    ELSE IF res.kind \in {"InvalidName", "DuplicateName"}
         THEN Result("InternalError")
    ELSE res

ApplicationService(op, res) ==
    IF op \in ServiceOps THEN res ELSE NoResult

\* The tool surface (McpServer).  create and list reach the store through
\* otter_create_app and otter_list_apps, which delegate to the service and
\* shape what it returns.  A formatted text is kept as its format string and
\* the arguments in the order they are substituted.

NoError == [fmt |-> "", reason |-> "", name |-> <<>>]

\* #[error(...)] on DbError: the Display text of a failure
Describe(res, name) ==
    IF res.kind = "InvalidName"
    THEN [fmt |-> "Invalid name: {0}", reason |-> res.reason, name |-> <<>>]
    ELSE IF res.kind = "DuplicateName"
    THEN [fmt |-> "Name '{0}' already exists", reason |-> "", name |-> name]
    ELSE [fmt |-> "Database error: {0}", reason |-> "", name |-> <<>>]

NoMessage == [fmt |-> "", name |-> <<>>, id |-> 0, error |-> NoError]

InternalError == "INTERNAL_ERROR"

NoReply == [ok |-> FALSE, code |-> "none", success |-> FALSE,
            application |-> NoRow, applications |-> <<>>, count |-> 0,
            message |-> NoMessage]

\* Err(McpError { code: ErrorCode::INTERNAL_ERROR, message, data: None })
McpError(fmt, res, name) ==
    [NoReply EXCEPT !.code = InternalError,
                    !.message = [NoMessage EXCEPT !.fmt = fmt,
                                                  !.error = Describe(res, name)]]

\* (variant) the message names the application that was asked for twice
CreateAppReplyIdFromInput(name, res) ==
    IF res.kind = "Ok"
    THEN [NoReply EXCEPT
            !.ok = TRUE, !.success = TRUE,
            !.application = [res.row EXCEPT !.id = 0],
            !.message = [NoMessage EXCEPT
               !.fmt = "Successfully created application '{}' with ID {}",
               !.name = name, !.id = 0]]
    ELSE McpError("Failed to create application: {}", res, name)

\* otter_create_app: what the tool returns for the service's answer
CreateAppReply(name, res) ==
    IF res.kind = "Ok"
    THEN [NoReply EXCEPT
            !.ok = TRUE, !.success = TRUE,
            !.application = res.row,
            !.message = [NoMessage EXCEPT
               !.fmt = "Successfully created application '{}' with ID {}",
               !.name = res.row.name, !.id = res.row.id]]
    ELSE McpError("Failed to create application: {}", res, name)

\* (variant) count is the index of the last entry, not the length
ListAppsReplyCountOff(res) ==
    IF res.kind = "List"
    THEN [NoReply EXCEPT !.ok = TRUE, !.success = TRUE,
                         !.applications = res.rows,
                         !.count = IF res.rows = <<>> THEN 0
                                   ELSE Len(res.rows) - 1]
    ELSE McpError("Failed to list applications: {}", res, <<>>)

\* otter_list_apps: what the tool returns for the service's answer
ListAppsReply(res) ==
    IF res.kind = "List"
    THEN [NoReply EXCEPT !.ok = TRUE, !.success = TRUE,
                         !.applications = res.rows,
                         !.count = Len(res.rows)]
    ELSE McpError("Failed to list applications: {}", res, <<>>)

\* (variant) a failure is answered with a success payload carrying the text
ToolReplySoftError(op, name, res) ==
    IF op = "create"
    THEN IF res.kind = "Ok" THEN CreateAppReply(name, res)
         ELSE [McpError("Failed to create application: {}", res, name)
                  EXCEPT !.ok = TRUE, !.code = "none"]
    ELSE IF op = "list"
    THEN IF res.kind = "List" THEN ListAppsReply(res)
         ELSE [McpError("Failed to list applications: {}", res, <<>>)
                  EXCEPT !.ok = TRUE, !.code = "none"]
    ELSE NoReply

\* What the caller of the tool receives; the other operations are not
\* exposed by the tool surface.
ToolReply(op, name, res) ==
    IF op = "create" THEN CreateAppReply(name, res)
    ELSE IF op = "list" THEN ListAppsReply(res)
    ELSE NoReply

Idle == [pc |-> "idle", op |-> "none", name |-> <<>>, id |-> 0,
         row |-> NoRow, res |-> NoResult, out |-> NoResult, reply |-> NoReply,
         conn |-> FALSE]

Free(t) == task[t].pc \in {"idle", "done"}

\* The call returns: its pending row is dropped with the future, and a pool
\* connection it held goes back to the pool.
Finish(t, res) ==
    task' = [task EXCEPT ![t].pc = "done", ![t].row = NoRow, ![t].res = res,
                         ![t].conn = FALSE,
                         ![t].out = ApplicationService(task[t].op, res),
                         ![t].reply =
                             ToolReply(task[t].op, task[t].name,
                                       ApplicationService(task[t].op, res))]

-----------------------------------------------------------------------------
(* The storage engine under the schema.  migrations/001_initial_schema.sql  *)
(* is not among the source files; the applications table it creates is     *)
(* taken from the persisted state layout: id primary key, name unique,     *)
(* created_at not null.  Result codes are SQLite's extended codes.         *)

SqliteOk == "0"
SqliteError == "1"                  \* no such table
SqliteConstraintPrimaryKey == "1555"
SqliteConstraintUnique == "2067"

\* (variant) a schema whose name column is not UNIQUE
InsertApplicationCodeNoUnique(row) ==
    IF ~applicationsTable THEN SqliteError
    ELSE IF \E r \in applications : r.id = row.id THEN SqliteConstraintPrimaryKey
    ELSE SqliteOk

\* INSERT INTO applications ... : the code the engine answers with
InsertApplicationCode(row) ==
    IF ~applicationsTable THEN SqliteError
    ELSE IF \E r \in applications : r.id = row.id THEN SqliteConstraintPrimaryKey
    ELSE IF \E r \in applications : r.name = row.name THEN SqliteConstraintUnique
    ELSE SqliteOk

\* 001_initial_schema.sql: ensures the applications table exists
RunInitialSchema ==
    /\ applicationsTable' = TRUE
    /\ applications' = (IF applicationsTable THEN applications ELSE {})

\* INSERT INTO _migrations (name, applied_at): name TEXT UNIQUE NOT NULL
InsertMigrationCode(name) ==
    IF ~migrationsTable THEN SqliteError
    ELSE IF \E i \in 1..Len(migrations) : migrations[i].name = name
         THEN SqliteConstraintUnique
    ELSE SqliteOk

\* (variant) ORDER BY created_at DESC alone: equal timestamps keep id order
RowBeforeNoNameKey(r, q) ==
    \/ r.created_at > q.created_at
    \/ r.created_at = q.created_at /\ r.id < q.id

\* ORDER BY created_at DESC, name ASC (rows equal in both keep id order)
RowBefore(r, q) ==
    \/ r.created_at > q.created_at
    \/ r.created_at = q.created_at /\ StrLess(r.name, q.name)
    \/ r.created_at = q.created_at /\ r.name = q.name /\ r.id < q.id

RECURSIVE OrderRows(_)
OrderRows(S) ==
    IF S = {} THEN <<>>
    ELSE LET r == CHOOSE x \in S : \A q \in S \ {x} : RowBefore(x, q)
         IN  <<r>> \o OrderRows(S \ {r})

-----------------------------------------------------------------------------
(* Callers.  A call is issued (Call...), then runs its statements one step  *)
(* at a time; its result stays in task[t].res until t issues another call. *)

InMigrate(t) ==
    task[t].pc \in {"migrate_create_table", "migrate_select", "migrate_run",
                    "migrate_record"}

\* History: a migrate call overlaps every migrate call in flight when it is
\* issued; any other call by t clears t's mark.
Overlaps(t, op) ==
    IF op = "migrate" /\ \E u \in Tasks : InMigrate(u)
    THEN overlapped \cup {t} \cup {u \in Tasks : InMigrate(u)}
    ELSE overlapped \ {t}

Issue(t, op, name, id, pc) ==
    /\ Free(t)
    /\ calls < MaxCalls
    /\ calls' = calls + 1
    /\ overlapped' = Overlaps(t, op)
    /\ task' = [task EXCEPT ![t] = [Idle EXCEPT !.pc = pc, !.op = op,
                                                  !.name = name, !.id = id]]

\* A call of a single statement: issued and answered in one step.
Answer(t, op, name, id, res) ==
    /\ Free(t)
    /\ calls < MaxCalls
    /\ calls' = calls + 1
    /\ overlapped' = Overlaps(t, op)
    /\ task' = [task EXCEPT ![t] = [Idle EXCEPT !.pc = "done", !.op = op,
                                                  !.name = name, !.id = id,
                                                  !.res = res,
                                                  !.out =
                                                    ApplicationService(op, res),
                                                  !.reply =
                                                    ToolReply(op, name,
                                                      ApplicationService(op, res))]]

CallCreate(t, name) ==
    /\ Issue(t, "create", name, 0, "create_validate")
    /\ UNCHANGED <<migrationsTable, migrations, applicationsTable, applications,
                   nextId, deleted, sqlRuns, vName, vOutcome>>

CallDelete(t, id) ==
    /\ Issue(t, "delete", <<>>, id, "delete_execute")
    /\ UNCHANGED <<migrationsTable, migrations, applicationsTable, applications,
                   nextId, deleted, sqlRuns, vName, vOutcome>>

CallMigrate(t) ==
    /\ Issue(t, "migrate", <<>>, 0, "migrate_create_table")
    /\ UNCHANGED <<migrationsTable, migrations, applicationsTable, applications,
                   nextId, deleted, sqlRuns, vName, vOutcome>>

-----------------------------------------------------------------------------
(* ApplicationRepository::create *)

\* (variant) the id is derived from the clock reading
NewRowIdFromClock(name, ts) == [id |-> ts + 1, name |-> name, created_at |-> ts]

\* (variant) every create binds one and the same id
NewRowFixedId(name, ts) == [id |-> 1, name |-> name, created_at |-> ts]

\* let id = Uuid::new_v4().to_string(); let created_at = Utc::now().timestamp_millis();
NewRow(name, ts) == [id |-> nextId, name |-> name, created_at |-> ts]

\* .bind(&id).bind(name).bind(created_at): the row the INSERT writes
BoundRow(t) == task[t].row

\* (variant) create hands back a record it builds itself, created_at unset
ReturnedRowRebuilt(row) == [row EXCEPT !.created_at = 0]

\* RETURNING *: the row handed back is the row written
ReturnedRow(row) == row

\* (variant) map_err tests for the primary-key code instead of 2067
MapInsertErrorWrongCode(code) ==
    IF code = SqliteConstraintPrimaryKey THEN Result("DuplicateName")
    ELSE Result("DatabaseError")

\* map_err: code 2067 is a duplicate name, anything else a database error
MapInsertError(code) ==
    IF code = SqliteConstraintUnique THEN Result("DuplicateName")
    ELSE Result("DatabaseError")

\* (variant) create without the validate_app_name call
CheckNameSkipped(name) == OkUnit

\* validate_app_name(name)?
CheckName(name) == validate_app_name(name)

CreateValidate(t) ==
    /\ task[t].pc = "create_validate"
    /\ LET v == CheckName(task[t].name) IN
       IF v.kind # "Ok"
       THEN /\ Finish(t, [Result("InvalidName") EXCEPT !.reason = v.reason])
            /\ UNCHANGED nextId
       ELSE /\ \E ts \in Clock :
                  task' = [task EXCEPT ![t].pc = "create_insert",
                                       ![t].row = NewRow(task[t].name, ts)]
            /\ nextId' = nextId + 1
    /\ UNCHANGED <<migrationsTable, migrations, applicationsTable, applications,
                   calls, deleted, sqlRuns, overlapped, vName, vOutcome>>

CreateInsert(t) ==
    /\ task[t].pc = "create_insert"
    /\ LET row == BoundRow(t)
           code == InsertApplicationCode(row) IN
       IF code = SqliteOk
       THEN /\ applications' = applications \cup {row}
            /\ Finish(t, [Result("Ok") EXCEPT !.row = ReturnedRow(row)])
       ELSE /\ Finish(t, MapInsertError(code))
            /\ UNCHANGED applications
    /\ UNCHANGED <<migrationsTable, migrations, applicationsTable, nextId,
                   calls, deleted, sqlRuns, overlapped, vName, vOutcome>>

-----------------------------------------------------------------------------
(* ApplicationRepository::get, get_by_name, list, delete *)

\* (variant) fetch_one with RowNotFound mapped to NotFound
FetchOptionalNotFound(S) ==
    IF S = {} THEN Result("NotFound")
    ELSE [Result("Some") EXCEPT !.row = CHOOSE r \in S : TRUE]

\* fetch_optional: the first matching row, or none
FetchOptional(S) ==
    IF S = {} THEN Result("None")
    ELSE [Result("Some") EXCEPT !.row = CHOOSE r \in S : TRUE]

\* SELECT * FROM applications WHERE id = ?
SelectById(id) ==
    IF ~applicationsTable THEN Result("DatabaseError")
    ELSE FetchOptional({r \in applications : r.id = id})

\* (variant) SELECT id, name ... : the row comes back without its created_at
SelectByNamePartial(name) ==
    IF ~applicationsTable THEN Result("DatabaseError")
    ELSE FetchOptional({[r EXCEPT !.created_at = 0] :
                           r \in {q \in applications : q.name = name}})

\* SELECT * FROM applications WHERE name = ?
SelectByName(name) ==
    IF ~applicationsTable THEN Result("DatabaseError")
    ELSE FetchOptional({r \in applications : r.name = name})

\* SELECT * FROM applications ORDER BY created_at DESC, name ASC
SelectAll ==
    IF ~applicationsTable THEN Result("DatabaseError")
    ELSE [Result("List") EXCEPT !.rows = OrderRows(applications)]

\* (variant) DELETE FROM applications, the WHERE clause lost
RowsAfterDeleteAll(id) == {}

\* DELETE FROM applications WHERE id = ? : the rows that stay
RowsAfterDelete(id) == {r \in applications : r.id # id}

\* (variant) Ok(result.rows_affected() >= 0)
DeleteResultAlwaysTrue(id) ==
    IF ~applicationsTable THEN Result("DatabaseError")
    ELSE IF Cardinality(applications) - Cardinality(RowsAfterDelete(id)) >= 0
         THEN Result("True")
    ELSE Result("False")

\* Ok(result.rows_affected() > 0)
DeleteResult(id) ==
    IF ~applicationsTable THEN Result("DatabaseError")
    ELSE IF Cardinality(applications) - Cardinality(RowsAfterDelete(id)) > 0
         THEN Result("True")
    ELSE Result("False")

Get(t, id) ==
    /\ Answer(t, "get", <<>>, id, SelectById(id))
    /\ UNCHANGED <<migrationsTable, migrations, applicationsTable, applications,
                   nextId, deleted, sqlRuns, vName, vOutcome>>

GetByName(t, name) ==
    /\ Answer(t, "get_by_name", name, 0, SelectByName(name))
    /\ UNCHANGED <<migrationsTable, migrations, applicationsTable, applications,
                   nextId, deleted, sqlRuns, vName, vOutcome>>

\* (variant) list that first ensures the applications table exists
ListEnsuresTable(t) ==
    /\ Answer(t, "list", <<>>, 0, SelectAll)
    /\ applicationsTable' = TRUE
    /\ UNCHANGED <<migrationsTable, migrations, applications,
                   nextId, deleted, sqlRuns, vName, vOutcome>>

List(t) ==
    /\ Answer(t, "list", <<>>, 0, SelectAll)
    /\ UNCHANGED <<migrationsTable, migrations, applicationsTable, applications,
                   nextId, deleted, sqlRuns, vName, vOutcome>>

Delete(t) ==
    /\ task[t].pc = "delete_execute"
    /\ Finish(t, DeleteResult(task[t].id))
    /\ applications' = (IF applicationsTable THEN RowsAfterDelete(task[t].id)
                        ELSE applications)
    /\ deleted' = deleted \cup {r.id : r \in applications \ applications'}
    /\ UNCHANGED <<migrationsTable, migrations, applicationsTable, nextId,
                   calls, sqlRuns, overlapped, vName, vOutcome>>

-----------------------------------------------------------------------------
(* Database::migrate: four statements, each its own implicit transaction   *)

\* (variant) CREATE TABLE _migrations (...), failing on an existing table
MigrateCreateTableStrict(t) ==
    /\ task[t].pc = "migrate_create_table"
    /\ IF migrationsTable
       THEN /\ Finish(t, Result("DatabaseError"))
            /\ UNCHANGED <<migrationsTable, migrations>>
       ELSE /\ migrationsTable' = TRUE
            /\ migrations' = <<>>
            /\ task' = [task EXCEPT ![t].pc = "migrate_select",
                                    ![t].conn = FALSE]
    /\ UNCHANGED <<applicationsTable, applications, nextId, calls,
                   deleted, sqlRuns, overlapped, vName, vOutcome>>

\* CREATE TABLE IF NOT EXISTS _migrations (...)
MigrateCreateTable(t) ==
    /\ task[t].pc = "migrate_create_table"
    /\ migrationsTable' = TRUE
    /\ migrations' = (IF migrationsTable THEN migrations ELSE <<>>)
    /\ task' = [task EXCEPT ![t].pc = "migrate_select", ![t].conn = FALSE]
    /\ UNCHANGED <<applicationsTable, applications, nextId, calls,
                   deleted, sqlRuns, overlapped, vName, vOutcome>>

\* (variant) migrate without the already-applied check
MigrationAppliedNever == FALSE

\* SELECT name FROM _migrations WHERE name = ? : applied.is_some()
MigrationApplied ==
    \E i \in 1..Len(migrations) : migrations[i].name = MigrationName

MigrateSelect(t) ==
    /\ task[t].pc = "migrate_select"
    /\ IF MigrationApplied
       THEN Finish(t, Result("Ok"))
       ELSE task' = [task EXCEPT ![t].pc = "migrate_run", ![t].conn = FALSE]
    /\ UNCHANGED <<migrationsTable, migrations, applicationsTable, applications,
                   nextId, calls, deleted, sqlRuns, overlapped, vName, vOutcome>>

\* sqlx::query(include_str!("../migrations/001_initial_schema.sql"))
MigrateRun(t) ==
    /\ task[t].pc = "migrate_run"
    /\ RunInitialSchema
    /\ sqlRuns' = sqlRuns + 1
    /\ task' = [task EXCEPT ![t].pc = "migrate_record", ![t].conn = FALSE]
    /\ UNCHANGED <<migrationsTable, migrations, nextId, calls, deleted,
                   overlapped, vName, vOutcome>>

\* INSERT INTO _migrations (name, applied_at) VALUES (?, ?)
MigrateRecord(t) ==
    /\ task[t].pc = "migrate_record"
    /\ IF InsertMigrationCode(MigrationName) = SqliteOk
       THEN /\ \E ts \in Clock :
                  migrations' = Append(migrations,
                                       [name |-> MigrationName, applied_at |-> ts])
            /\ Finish(t, Result("Ok"))
       ELSE /\ Finish(t, Result("DatabaseError"))
            /\ UNCHANGED migrations
    /\ UNCHANGED <<migrationsTable, applicationsTable, applications, nextId,
                   calls, deleted, sqlRuns, overlapped, vName, vOutcome>>

\* The caller dies (process exit, dropped future) at an await of migrate:
\* the statements already executed stay committed.
Abort(t) ==
    /\ InMigrate(t)
    /\ Finish(t, Result("Aborted"))
    /\ UNCHANGED <<migrationsTable, migrations, applicationsTable, applications,
                   nextId, calls, deleted, sqlRuns, overlapped, vName, vOutcome>>

-----------------------------------------------------------------------------
(* The connection pool.  Every statement is executed on &self.pool: it takes *)
(* a connection, runs, and gives the connection back.  In the actions above *)
(* the three happen in one step; here a statement first waits for one of    *)
(* the PoolSize connections (task[t].conn = FALSE), then holds it           *)
(* (task[t].conn = TRUE) until the statement has run.  The wait is the      *)
(* pool's: it ends with a connection, or with the pool's timeout error.     *)

\* config.max_connections, the size the pool is opened with (5 unless
\* configured otherwise); the pool is modelled with a single connection.
PoolSize == 1

PoolCallers == 1..(PoolSize + 1)

StatementPcs == {"create_insert", "get_fetch", "get_by_name_fetch",
                 "list_fetch", "delete_execute", "migrate_create_table",
                 "migrate_select"}

Waiting(t) == task[t].pc \in StatementPcs /\ ~task[t].conn

Held(t) == task[t].pc \in StatementPcs /\ task[t].conn

InUse == Cardinality({t \in Tasks : task[t].conn})

\* A call is issued; calls are not counted.
PoolIssue(t, op, name, id, pc) ==
    /\ Free(t)
    /\ task' = [task EXCEPT ![t] = [Idle EXCEPT !.pc = pc, !.op = op,
                                                  !.name = name, !.id = id]]
    /\ UNCHANGED <<migrationsTable, migrations, applicationsTable, applications,
                   nextId, calls, deleted, sqlRuns, overlapped, vName, vOutcome>>

PoolCallGet(t, id) == PoolIssue(t, "get", <<>>, id, "get_fetch")

PoolCallGetByName(t, name) ==
    PoolIssue(t, "get_by_name", name, 0, "get_by_name_fetch")

PoolCallList(t) == PoolIssue(t, "list", <<>>, 0, "list_fetch")

PoolCallMigrate(t) == PoolIssue(t, "migrate", <<>>, 0, "migrate_create_table")

\* The pool hands a free connection to a waiting statement.
PoolAcquire(t) ==
    /\ Waiting(t)
    /\ InUse < PoolSize
    /\ task' = [task EXCEPT ![t].conn = TRUE]
    /\ UNCHANGED <<migrationsTable, migrations, applicationsTable, applications,
                   nextId, calls, deleted, sqlRuns, overlapped, vName, vOutcome>>

\* sqlx::Error::PoolTimedOut, as every sqlx::Error, becomes
\* DbError::DatabaseError.
MapPoolError == Result("DatabaseError")

\* (variant) the wait for a connection has no limit
PoolTimeoutNever(t) ==
    /\ Waiting(t)
    /\ FALSE
    /\ UNCHANGED vars

\* No connection came free within the pool's acquire timeout: the statement,
\* and with it the call, fails.
PoolTimeout(t) ==
    /\ Waiting(t)
    /\ InUse >= PoolSize
    /\ Finish(t, MapPoolError)
    /\ UNCHANGED <<migrationsTable, migrations, applicationsTable, applications,
                   nextId, calls, deleted, sqlRuns, overlapped, vName, vOutcome>>

\* The statements of get, get_by_name and list, run on a held connection.
GetFetch(t) ==
    /\ task[t].pc = "get_fetch"
    /\ Finish(t, SelectById(task[t].id))
    /\ UNCHANGED <<migrationsTable, migrations, applicationsTable, applications,
                   nextId, calls, deleted, sqlRuns, overlapped, vName, vOutcome>>

GetByNameFetch(t) ==
    /\ task[t].pc = "get_by_name_fetch"
    /\ Finish(t, SelectByName(task[t].name))
    /\ UNCHANGED <<migrationsTable, migrations, applicationsTable, applications,
                   nextId, calls, deleted, sqlRuns, overlapped, vName, vOutcome>>

ListFetch(t) ==
    /\ task[t].pc = "list_fetch"
    /\ Finish(t, SelectAll)
    /\ UNCHANGED <<migrationsTable, migrations, applicationsTable, applications,
                   nextId, calls, deleted, sqlRuns, overlapped, vName, vOutcome>>

\* What a caller does next without anyone calling: validate, wait for a
\* connection, run the statement it holds a connection for.
PoolStep(t) ==
    \/ CreateValidate(t)
    \/ PoolAcquire(t)
    \/ PoolTimeout(t)
    \/ Held(t) /\ CreateInsert(t)
    \/ Held(t) /\ GetFetch(t)
    \/ Held(t) /\ GetByNameFetch(t)
    \/ Held(t) /\ ListFetch(t)
    \/ Held(t) /\ Delete(t)
    \/ Held(t) /\ MigrateCreateTable(t)
    \/ Held(t) /\ MigrateSelect(t)

-----------------------------------------------------------------------------
(* Validation on its own: names around the length limit *)

RunLens == {1, 2, MaxNameLen \div 2, MaxNameLen \div 2 + 1,
            MaxNameLen - 1, MaxNameLen, MaxNameLen + 1}

RunValues == [c : Chars, n : RunLens]

NameInputs ==
    {s \in UNION {[1..k -> RunValues] : k \in 0..MaxRuns} :
        \A i \in 1..(Len(s) - 1) : s[i].c # s[i + 1].c}

NotRun == [kind |-> "none", reason |-> ""]

ValidateName ==
    /\ vOutcome = NotRun
    /\ vOutcome' = validate_app_name(vName)
    /\ UNCHANGED <<storeVars, vName>>

\* A further call with the same name; the function reads nothing but its
\* argument.
ValidateAgain ==
    /\ vOutcome # NotRun
    /\ vOutcome' = validate_app_name(vName)
    /\ UNCHANGED <<storeVars, vName>>

-----------------------------------------------------------------------------
(* Specifications *)

\* The store as main.rs serves it: Database::new, then migrate, then calls.
Init ==
    /\ migrationsTable = TRUE
    /\ migrations = <<[name |-> MigrationName, applied_at |-> 0]>>
    /\ applicationsTable = TRUE
    /\ applications = {}
    /\ nextId = 1
    /\ task = [t \in Tasks |-> Idle]
    /\ calls = 0
    /\ deleted = {}
    /\ sqlRuns = 1
    /\ overlapped = {}
    /\ vName = <<>>
    /\ vOutcome = NotRun

Next ==
    \E t \in Callers :
        \/ \E name \in StoreNames : CallCreate(t, name)
        \/ CreateValidate(t)
        \/ CreateInsert(t)
        \/ \E id \in ArgIds : Get(t, id)
        \/ \E name \in StoreNames : GetByName(t, name)
        \/ List(t)
        \/ \E id \in ArgIds : CallDelete(t, id)
        \/ Delete(t)
        \/ CallMigrate(t)
        \/ MigrateCreateTable(t)
        \/ MigrateSelect(t)

Spec == Init /\ [][Next]_vars

\* A database file just created by Database::new: no tables yet.
InitBoot ==
    /\ migrationsTable = FALSE
    /\ migrations = <<>>
    /\ applicationsTable = FALSE
    /\ applications = {}
    /\ nextId = 1
    /\ task = [t \in Tasks |-> Idle]
    /\ calls = 0
    /\ deleted = {}
    /\ sqlRuns = 0
    /\ overlapped = {}
    /\ vName = <<>>
    /\ vOutcome = NotRun

NextBoot ==
    \/ Next
    \/ \E t \in Callers :
        \/ MigrateRun(t)
        \/ MigrateRecord(t)
        \/ Abort(t)

SpecBoot == InitBoot /\ [][NextBoot]_vars

\* validate_app_name applied once to a name drawn from NameInputs.
InitValidate ==
    /\ migrationsTable = FALSE
    /\ migrations = <<>>
    /\ applicationsTable = FALSE
    /\ applications = {}
    /\ nextId = 1
    /\ task = [t \in Tasks |-> Idle]
    /\ calls = 0
    /\ deleted = {}
    /\ sqlRuns = 0
    /\ overlapped = {}
    /\ vName \in NameInputs
    /\ vOutcome = NotRun

NextValidate == ValidateName \/ ValidateAgain

SpecValidate == InitValidate /\ [][NextValidate]_vars

\* K >= 2 callers have each issued create with one and the same accepted
\* name against a migrated, empty store; a caller outside the race may read.
InitRace ==
    /\ migrationsTable = TRUE
    /\ migrations = <<[name |-> MigrationName, applied_at |-> 0]>>
    /\ applicationsTable = TRUE
    /\ applications = {}
    /\ nextId = 1
    /\ \E n \in ValidNames : \E K \in SUBSET Tasks :
          /\ Cardinality(K) >= 2
          /\ task = [t \in Tasks |->
                       IF t \in K
                       THEN [Idle EXCEPT !.pc = "create_validate",
                                         !.op = "create", !.name = n]
                       ELSE Idle]
          /\ calls = Cardinality(K)
    /\ deleted = {}
    /\ sqlRuns = 1
    /\ overlapped = {}
    /\ vName = <<>>
    /\ vOutcome = NotRun

Racers == {t \in Tasks : task[t].op = "create"}

NextRace ==
    \E t \in Tasks :
        \/ CreateValidate(t)
        \/ CreateInsert(t)
        \/ t \notin Racers /\ \E name \in ValidNames : GetByName(t, name)
        \/ t \notin Racers /\ List(t)

SpecRace == InitRace /\ [][NextRace]_vars

\* format!("app-{}", i): the name the i-th of the concurrent callers passes
FanoutName(t) == Rep("a", 1) \o Rep("-", 1) \o Rep("7", t)

\* K >= 2 callers have each issued create with a name of their own against a
\* migrated, empty store; a caller outside the group may list.
InitFanout ==
    /\ migrationsTable = TRUE
    /\ migrations = <<[name |-> MigrationName, applied_at |-> 0]>>
    /\ applicationsTable = TRUE
    /\ applications = {}
    /\ nextId = 1
    /\ \E K \in SUBSET Tasks :
          /\ Cardinality(K) >= 2
          /\ task = [t \in Tasks |->
                       IF t \in K
                       THEN [Idle EXCEPT !.pc = "create_validate",
                                         !.op = "create",
                                         !.name = FanoutName(t)]
                       ELSE Idle]
          /\ calls = Cardinality(K)
    /\ deleted = {}
    /\ sqlRuns = 1
    /\ overlapped = {}
    /\ vName = <<>>
    /\ vOutcome = NotRun

NextFanout ==
    \E t \in Tasks :
        \/ CreateValidate(t)
        \/ CreateInsert(t)
        \/ t \notin Racers /\ List(t)

SpecFanout == InitFanout /\ [][NextFanout]_vars

\* The migrated store behind a pool of PoolSize connections, with one caller
\* more than connections.  Callers call again and again; only the creates and
\* deletes are counted.  A caller's next step is
\* taken eventually: the runtime polls every task that can go on, a statement
\* on a connection terminates, and the pool's timer fires.
NextPool ==
    \E t \in PoolCallers :
        \/ calls < MaxPoolWrites /\ \E name \in StoreNames : CallCreate(t, name)
        \/ \E id \in ArgIds : PoolCallGet(t, id)
        \/ \E name \in ValidNames : PoolCallGetByName(t, name)
        \/ PoolCallList(t)
        \/ calls < MaxPoolWrites /\ \E id \in ArgIds : CallDelete(t, id)
        \/ PoolCallMigrate(t)
        \/ PoolStep(t)

SpecPool ==
    /\ Init
    /\ [][NextPool]_vars
    /\ \A t \in PoolCallers : WF_vars(PoolStep(t))

\* Callers create, look up and delete applications of one name on the
\* migrated store, so that every row ever deleted had that name.
NextRecreate ==
    \E t \in Callers :
        \/ CallCreate(t, NameApp)
        \/ CreateValidate(t)
        \/ CreateInsert(t)
        \/ GetByName(t, NameApp)
        \/ \E id \in ArgIds : CallDelete(t, id)
        \/ Delete(t)

SpecRecreate == Init /\ [][NextRecreate]_vars

\* K >= 2 callers have each issued delete with the id of the one stored row
\* of a migrated store; a caller outside the race may create.
InitDeleteRace ==
    /\ migrationsTable = TRUE
    /\ migrations = <<[name |-> MigrationName, applied_at |-> 0]>>
    /\ applicationsTable = TRUE
    /\ \E ts \in Clock :
          applications = {[id |-> 1, name |-> NameApp, created_at |-> ts]}
    /\ nextId = 2
    /\ \E K \in SUBSET Tasks :
          /\ Cardinality(K) >= 2
          /\ task = [t \in Tasks |->
                       IF t \in K
                       THEN [Idle EXCEPT !.pc = "delete_execute",
                                         !.op = "delete", !.id = 1]
                       ELSE Idle]
          /\ calls = Cardinality(K)
    /\ deleted = {}
    /\ sqlRuns = 1
    /\ overlapped = {}
    /\ vName = <<>>
    /\ vOutcome = NotRun

DeleteRacers == {t \in Tasks : task[t].op = "delete"}

NextDeleteRace ==
    \E t \in Tasks :
        \/ Delete(t)
        \/ t \notin DeleteRacers /\ \E name \in ValidNames : CallCreate(t, name)
        \/ CreateValidate(t)
        \/ CreateInsert(t)

SpecDeleteRace == InitDeleteRace /\ [][NextDeleteRace]_vars

-----------------------------------------------------------------------------
(* Properties *)

Done(t, op) == task[t].pc = "done" /\ task[t].op = op

\* The Validation rules as the specification words them: length is counted
\* in characters.
RulesAccept(name) ==
    /\ name # <<>>
    /\ CharCount(name) <= MaxNameLen
    /\ IsAlphanumeric(FirstChar(name))
    /\ AllAllowed(name)

\* The reason of the first rule, in the order 1..4, that a rejected name violates.
FirstViolatedReason(name) ==
    IF name = <<>> THEN ReasonEmpty
    ELSE IF CharCount(name) > MaxNameLen THEN ReasonLength
    ELSE IF ~IsAlphanumeric(FirstChar(name)) THEN ReasonFirst
    ELSE ReasonCharset

RaceWinners == {t \in Racers : task[t].res.kind = "Ok"}
RaceLosers == {t \in Racers : task[t].res.kind = "DuplicateName"}
RaceOver == \A t \in Racers : task[t].pc = "done"

\* C1: K >= 2 concurrent creates of one valid name on an empty migrated
\* store: never two successes, every call that has returned returned success
\* or DuplicateName, and once all have returned exactly one succeeded and the
\* other K-1 got DuplicateName.
C1_RaceOneWinner ==
    /\ Cardinality(RaceWinners) <= 1
    /\ \A t \in Racers :
          task[t].pc = "done" => task[t].res.kind \in {"Ok", "DuplicateName"}
    /\ RaceOver => /\ Cardinality(RaceWinners) = 1
                   /\ Cardinality(RaceLosers) = Cardinality(Racers) - 1

\* A race of three callers has ended.
C1_Witness ==
    /\ Cardinality(Racers) >= 3
    /\ RaceOver
    /\ Cardinality(RaceLosers) >= 2

\* C2: in every reachable state no two rows of the applications table have
\* the same name, and no two have the same id.
C2_UniqueNameAndId ==
    \A r \in applications : \A q \in applications :
        r # q => r.name # q.name /\ r.id # q.id

\* Two rows are stored, after creates of two different names.
C2_Witness == Cardinality(applications) >= 2

\* C3: the name of every stored row satisfies the Validation rules.
C3_RowsValid == \A r \in applications : RulesAccept(r.name)

\* A row is stored and a create was rejected with InvalidName.
C3_Witness ==
    /\ applications # {}
    /\ \E t \in Tasks : Done(t, "create") /\ task[t].res.kind = "InvalidName"

\* C4: every migrate call that returns, concurrent ones included, returns Ok,
\* and the migration record exists exactly once.
C4_ConcurrentMigrateOk ==
    \A t \in Tasks :
        (Done(t, "migrate") /\ task[t].res.kind # "Aborted")
            => task[t].res.kind = "Ok" /\ Len(migrations) = 1

\* C5: a migrate call that overlapped no other migrate call returns Ok and
\* leaves one metadata row named 001_initial_schema and the applications
\* table, however many migrate calls came before it.
C5_SequentialMigrateIdempotent ==
    \A t \in Tasks :
        (Done(t, "migrate") /\ task[t].res.kind # "Aborted" /\ t \notin overlapped)
            => /\ task[t].res.kind = "Ok"
               /\ migrationsTable
               /\ applicationsTable
               /\ Len(migrations) = 1
               /\ migrations[1].name = MigrationName

\* Two callers have each completed a migrate call, one after the other, and
\* the migration SQL ran once.
C5_Witness ==
    /\ sqlRuns = 1
    /\ \E t \in Tasks : \E u \in Tasks :
          /\ t # u
          /\ Done(t, "migrate") /\ task[t].res.kind = "Ok" /\ t \notin overlapped
          /\ Done(u, "migrate") /\ task[u].res.kind = "Ok" /\ u \notin overlapped

\* C6: in no reachable state is the migration applied but not recorded, and
\* the migration SQL is never executed a second time.
C6_AppliedAtomicallyOnce ==
    /\ applicationsTable => MigrationApplied
    /\ sqlRuns <= 1

\* C7: validate_app_name accepts a name exactly when the Validation rules
\* (length in characters) accept it, and rejects every other with InvalidName.
C7_AcceptsExactlyRules ==
    vOutcome # NotRun =>
        IF RulesAccept(vName) THEN vOutcome.kind = "Ok"
        ELSE vOutcome.kind = "InvalidName"

\* C8: a rejected name is rejected with the reason of the first rule it
\* violates, in the order non-empty, length, first character, character set.
C8_FirstViolatedRuleWins ==
    (vOutcome # NotRun /\ ~RulesAccept(vName))
        => vOutcome = InvalidName(FirstViolatedReason(vName))

\* C9: while the row of a successful create(n) has not been deleted, get by
\* its id and get_by_name(n) both return the record create returned.
C9_RoundTrip ==
    \A t \in Tasks :
        (Done(t, "create") /\ task[t].res.kind = "Ok"
                           /\ task[t].res.row.id \notin deleted)
            => /\ SelectById(task[t].res.row.id)
                    = [Result("Some") EXCEPT !.row = task[t].res.row]
               /\ SelectByName(task[t].name)
                    = [Result("Some") EXCEPT !.row = task[t].res.row]

\* A create returned a record with a non-zero created_at and a later get of
\* its id answered with the same record.
C9_Witness ==
    \E t \in Tasks : \E u \in Tasks :
        /\ Done(t, "create") /\ task[t].res.kind = "Ok"
        /\ task[t].res.row.created_at > 0
        /\ Done(u, "get") /\ task[u].id = task[t].res.row.id
        /\ task[u].res = [Result("Some") EXCEPT !.row = task[t].res.row]

\* The step in which t's delete call returns.
DeleteReturns(t) == task[t].pc = "delete_execute" /\ task'[t].pc = "done"

\* C10: on a migrated store, delete(id) of a present id returns true and get(id)
\* is absent in the state it leaves and in every later one; delete(id) of an
\* id not present returns false and leaves the rows unchanged.
C10_DeleteSemantics ==
    /\ [](\A id \in deleted : SelectById(id) = Result("None"))
    /\ [][\A t \in Tasks :
             (DeleteReturns(t) /\ applicationsTable) =>
                 IF \E r \in applications : r.id = task[t].id
                 THEN /\ task'[t].res = Result("True")
                      /\ SelectById(task[t].id)' = Result("None")
                 ELSE /\ task'[t].res = Result("False")
                      /\ applications' = applications]_vars

\* One delete removed a row, whose id get now reports absent, and another
\* delete of an id not present returned false.
C10_Witness ==
    \E t \in Tasks : \E u \in Tasks :
        /\ Done(t, "delete") /\ task[t].res.kind = "True"
        /\ task[t].id \in deleted
        /\ SelectById(task[t].id) = Result("None")
        /\ Done(u, "delete") /\ task[u].res.kind = "False"

\* The steps in which a read of t returns.
GetReturns(t) ==
    /\ task'[t].op = "get" /\ task'[t].pc = "done"
    /\ task'[t].id \in ArgIds
    /\ Get(t, task'[t].id)

GetByNameReturns(t) ==
    /\ task'[t].op = "get_by_name" /\ task'[t].pc = "done"
    /\ task'[t].name \in StoreNames
    /\ GetByName(t, task'[t].name)

ListReturns(t) ==
    /\ task'[t].op = "list" /\ task'[t].pc = "done"
    /\ List(t)

\* C11: list() returns every row of the table exactly once, ordered by
\* created_at descending, rows of equal created_at in ascending name order.
C11_ListComplete ==
    [][\A t \in Tasks :
          ListReturns(t) =>
              LET rows == task'[t].res.rows
              IN  /\ task'[t].res.kind = "List"
                  /\ \A r \in applications :
                        Cardinality({i \in 1..Len(rows) : rows[i] = r}) = 1
                  /\ \A i \in 1..Len(rows) : rows[i] \in applications
                  /\ \A i \in 1..Len(rows) : \A j \in 1..Len(rows) :
                        i < j =>
                          \/ rows[i].created_at > rows[j].created_at
                          \/ /\ rows[i].created_at = rows[j].created_at
                             /\ StrLess(rows[i].name, rows[j].name)]_vars

\* A list call returned two rows of equal created_at, the one created second
\* first because its name is the smaller.
C11_Witness ==
    \E t \in Tasks :
        /\ Done(t, "list") /\ Len(task[t].res.rows) = 2
        /\ task[t].res.rows[1].created_at = task[t].res.rows[2].created_at
        /\ task[t].res.rows[1].id > task[t].res.rows[2].id

\* What create and list can fail with.
Failures == {"InvalidName", "DuplicateName", "DatabaseError"}

\* C12: every failure of the service during otter_create_app or
\* otter_list_apps is answered with a protocol error of the one generic
\* internal-error code whose message carries the description of the failure;
\* none is answered with a success payload.
C12_FailuresAreProtocolErrors ==
    \A t \in Tasks :
        ((Done(t, "create") \/ Done(t, "list")) /\ task[t].res.kind \in Failures)
            => /\ ~task[t].reply.ok
               /\ ~task[t].reply.success
               /\ task[t].reply.code = "INTERNAL_ERROR"
               /\ task[t].reply.message.fmt
                     = (IF task[t].op = "create"
                        THEN "Failed to create application: {}"
                        ELSE "Failed to list applications: {}")
               /\ task[t].res.kind = "InvalidName" =>
                     /\ task[t].reply.message.error.fmt = "Invalid name: {0}"
                     /\ task[t].reply.message.error.reason = task[t].res.reason
               /\ task[t].res.kind = "DuplicateName" =>
                     /\ task[t].reply.message.error.fmt
                           = "Name '{0}' already exists"
                     /\ task[t].reply.message.error.name = task[t].name
               /\ task[t].res.kind = "DatabaseError" =>
                     task[t].reply.message.error.fmt = "Database error: {0}"

\* A create was rejected for its name and a list failed on a store without
\* tables; both were answered with a protocol error.
C12_Witness ==
    \E t \in Tasks : \E u \in Tasks :
        /\ Done(t, "create") /\ task[t].res.kind = "InvalidName"
        /\ task[t].reply.code = "INTERNAL_ERROR"
        /\ Done(u, "list") /\ task[u].res.kind = "DatabaseError"
        /\ task[u].reply.code = "INTERNAL_ERROR"

\* The rows a list() issued in this state returns.
Listed == {SelectAll.rows[i] : i \in 1..Len(SelectAll.rows)}

\* The step in which t's create call returns.
CreateReturns(t) ==
    task[t].pc \in {"create_validate", "create_insert"} /\ task'[t].pc = "done"

\* C14: a read that runs while creates and deletes are in flight observes each
\* row completely, as create returned it, or not at all; and in every state a
\* row is found by get(id) exactly when it is found by get_by_name(name) and
\* appears in list().
C14_ReadsAgree ==
    /\ [](LET listed == Listed
          IN  /\ \A id \in ArgIds :
                   LET found == SelectById(id)
                   IN  IF \E r \in listed : r.id = id
                       THEN /\ found.kind = "Some"
                            /\ found.row \in listed
                            /\ SelectByName(found.row.name) = found
                       ELSE found.kind = "None"
              /\ \A name \in StoreNames :
                   LET found == SelectByName(name)
                   IN  IF \E r \in listed : r.name = name
                       THEN /\ found.kind = "Some"
                            /\ found.row \in listed
                            /\ SelectById(found.row.id) = found
                       ELSE found.kind = "None")
    /\ [][/\ \A r \in applications' \ applications :
                \E t \in Tasks : /\ CreateReturns(t)
                                 /\ task'[t].res.kind = "Ok"
                                 /\ task'[t].res.row = r
          /\ \A t \in Tasks :
               /\ (GetReturns(t) \/ GetByNameReturns(t)) =>
                      (task'[t].res.kind = "Some" =>
                           task'[t].res.row \in applications)
               /\ ListReturns(t) =>
                      \A i \in 1..Len(task'[t].res.rows) :
                           task'[t].res.rows[i] \in applications]_vars

\* While a delete of a row's id was in flight, a get_by_name found the row,
\* with the non-zero created_at its create had returned.
C14_Witness ==
    \E t \in Tasks : \E u \in Tasks :
        /\ task[t].pc = "delete_execute"
        /\ Done(u, "get_by_name") /\ task[u].res.kind = "Some"
        /\ task[u].res.row.id = task[t].id
        /\ task[u].res.row.created_at > 0
        /\ task[u].res.row \in applications

\* C15: K concurrent creates with K pairwise distinct valid names on a
\* migrated store all succeed, and a list() after they have all returned
\* returns exactly those K applications.
C15_DistinctCreatesAllSucceed ==
    /\ [](\A t \in Racers : task[t].pc = "done" =>
              /\ task[t].res.kind = "Ok"
              /\ task[t].res.row.name = task[t].name)
    /\ [](RaceOver =>
              /\ Listed = {task[t].res.row : t \in Racers}
              /\ {r.name : r \in Listed} = {task[t].name : t \in Racers}
              /\ Len(SelectAll.rows) = Cardinality(Racers))
    /\ [][\A u \in Tasks :
             (RaceOver /\ ListReturns(u)) =>
                 /\ Len(task'[u].res.rows) = Cardinality(Racers)
                 /\ {task'[u].res.rows[i] : i \in 1..Len(task'[u].res.rows)}
                       = {task[t].res.row : t \in Racers}]_vars

\* Three callers created three names concurrently, all have returned, and the
\* table holds three rows.
C15_Witness ==
    /\ Cardinality(Racers) >= 3
    /\ RaceOver
    /\ \A t \in Racers : task[t].res.kind = "Ok"
    /\ Cardinality(applications) >= 3

\* C16: the id of a successful create differs from the id of every earlier
\* successful create, those of rows deleted since included.
C16_IdsNeverReused ==
    [][\A t \in Tasks :
          (CreateReturns(t) /\ task'[t].res.kind = "Ok") =>
              /\ task'[t].res.row.id \notin {r.id : r \in applications}
              /\ task'[t].res.row.id \notin deleted
              /\ \A u \in Tasks \ {t} :
                    (Done(u, "create") /\ task[u].res.kind = "Ok")
                        => task'[t].res.row.id # task[u].res.row.id]_vars

\* A create succeeded after the row of an earlier create had been deleted.
C16_Witness ==
    \E t \in Tasks :
        /\ Done(t, "create") /\ task[t].res.kind = "Ok"
        /\ task[t].res.row.id \notin deleted
        /\ \E d \in deleted : d < task[t].res.row.id

\* C17: no operation changes the id, name or created_at of a stored row;
\* create only adds one new row, delete only removes the row of the given id,
\* and get, get_by_name and list leave the table as it is.
C17_RowsImmutable ==
    [][/\ \A r \in applications : \A q \in applications' :
             r.id = q.id => q = r
       /\ \A t \in Tasks :
            /\ CreateReturns(t) =>
                  /\ applications \subseteq applications'
                  /\ applications' \ applications
                        \subseteq {task'[t].res.row}
                  /\ task'[t].res.kind = "Ok" =>
                        applications' \ applications = {task'[t].res.row}
            /\ DeleteReturns(t) =>
                  applications' = {r \in applications : r.id # task[t].id}
            /\ (GetReturns(t) \/ GetByNameReturns(t) \/ ListReturns(t)) =>
                  applications' = applications
       /\ applications' # applications =>
            \E t \in Tasks : CreateReturns(t) \/ DeleteReturns(t)]_vars

\* A delete removed one of two rows and the other is still stored.
C17_Witness ==
    \E t \in Tasks :
        /\ Done(t, "delete") /\ task[t].res.kind = "True"
        /\ task[t].id \in deleted
        /\ \E r \in applications : r.id # task[t].id

\* C18: a create that is rejected leaves the store as it was: a name that
\* fails validation is answered with InvalidName and nothing is inserted; an
\* accepted name that a row already holds is answered with DuplicateName and
\* the table keeps exactly the rows it held, the first row of that name with
\* its id and created_at.
C18_RejectedCreateNoEffect ==
    [][\A t \in Tasks :
          CreateReturns(t) =>
              /\ task'[t].res.kind # "Ok" => applications' = applications
              /\ ~RulesAccept(task[t].name) =>
                    /\ task'[t].res.kind = "InvalidName"
                    /\ applications' = applications
              /\ (RulesAccept(task[t].name)
                    /\ \E r \in applications : r.name = task[t].name) =>
                    /\ task'[t].res.kind = "DuplicateName"
                    /\ applications' = applications
                    /\ \A r \in applications :
                          r.name = task[t].name =>
                              SelectByName(task[t].name)'.row = r]_vars

\* One create was rejected with DuplicateName and another with InvalidName
\* while the row created first is stored.
C18_Witness ==
    \E t \in Tasks : \E u \in Tasks :
        /\ Done(t, "create") /\ task[t].res.kind = "DuplicateName"
        /\ Done(u, "create") /\ task[u].res.kind = "InvalidName"
        /\ \E r \in applications : r.name = task[t].name

\* C19: when list() succeeds, otter_list_apps answers with a success payload
\* whose applications are the full ordered result of list(), each entry with
\* id, name and created_at, and whose count is their number; on an empty
\* store it is still a success, with no applications and count 0.
C19_ListPayload ==
    \A t \in Tasks :
        (Done(t, "list") /\ task[t].res.kind = "List") =>
            /\ task[t].reply.ok
            /\ task[t].reply.success
            /\ task[t].reply.code = "none"
            /\ task[t].reply.applications = task[t].res.rows
            /\ \A i \in 1..Len(task[t].reply.applications) :
                  DOMAIN task[t].reply.applications[i]
                      = {"id", "name", "created_at"}
            /\ task[t].reply.count = Len(task[t].res.rows)
            /\ task[t].res.rows = <<>> =>
                  /\ task[t].reply.applications = <<>>
                  /\ task[t].reply.count = 0

\* otter_list_apps answered one caller on the empty store with count 0 and
\* another, after a create, with the row created.
C19_Witness ==
    \E t \in Tasks : \E u \in Tasks :
        /\ Done(t, "list") /\ task[t].reply.ok /\ task[t].reply.count = 0
        /\ Done(u, "list") /\ task[u].reply.ok /\ task[u].reply.count = 1
        /\ task[u].reply.applications[1] \in applications

\* C20: when otter_create_app answers with success, the payload carries the
\* id, name and created_at of the row that was persisted, the message embeds
\* that name and id, and until the row is deleted list() contains it.
C20_CreatePayload ==
    \A t \in Tasks :
        (Done(t, "create") /\ task[t].reply.ok) =>
            /\ task[t].reply.success
            /\ task[t].res.kind = "Ok"
            /\ task[t].reply.application = task[t].res.row
            /\ task[t].reply.application.name = task[t].name
            /\ task[t].reply.message.fmt
                  = "Successfully created application '{}' with ID {}"
            /\ task[t].reply.message.name = task[t].reply.application.name
            /\ task[t].reply.message.id = task[t].reply.application.id
            /\ task[t].reply.application.id \notin deleted =>
                  /\ task[t].reply.application \in applications
                  /\ task[t].reply.application \in Listed

\* otter_create_app answered with success and a list() issued afterwards by
\* another caller returned the application of the payload.
C20_Witness ==
    \E t \in Tasks : \E u \in Tasks :
        /\ Done(t, "create") /\ task[t].reply.ok
        /\ task[t].reply.application.created_at > 0
        /\ Done(u, "list") /\ Len(task[u].res.rows) = 1
        /\ task[u].res.rows[1] = task[t].reply.application

\* t has been called and has not returned.
InFlight(t) == task[t].pc \notin {"idle", "done"}

\* C13: every invoked store operation eventually returns, also when more
\* operations are in flight than the pool has connections; an operation that
\* gives up waiting for a connection returns a generic storage error, and
\* none returns anything but a result or an error of the store.
C13_EveryCallReturns ==
    /\ \A t \in PoolCallers : InFlight(t) ~> (task[t].pc = "done")
    /\ [][\A t \in PoolCallers :
             (Waiting(t) /\ task'[t].pc = "done") =>
                 task'[t].res = Result("DatabaseError")]_vars
    /\ [](\A t \in PoolCallers :
             task[t].pc = "done" =>
                 task[t].res.kind \in {"Ok", "Some", "None", "List", "True",
                                       "False", "InvalidName", "DuplicateName",
                                       "DatabaseError"})

\* With every connection of the pool in use by others, a caller that waited
\* for one has returned a storage error.
C13_Witness ==
    \E t \in PoolCallers :
        /\ task[t].pc = "done" /\ task[t].res.kind = "DatabaseError"
        /\ InUse = PoolSize
        /\ Cardinality({u \in PoolCallers : InFlight(u)}) >= PoolSize

-----------------------------------------------------------------------------
\* C21: for create_app, get_app, get_app_by_name, list_apps and delete_app,
\* what the service hands to its caller is exactly the result the store
\* operation returned, InvalidName and DuplicateName with their reason
\* included, and the service hands out nothing before the store has returned.
C21_ServicePassThrough ==
    \A t \in Tasks :
        /\ (task[t].pc = "done" /\ task[t].op \in ServiceOps)
              => task[t].out = task[t].res
        /\ task[t].pc # "done" => task[t].out = NoResult

\* One caller got DuplicateName and another InvalidName through the service,
\* while a created row is stored.
C21_Witness ==
    \E t \in Tasks : \E u \in Tasks :
        /\ Done(t, "create") /\ task[t].out.kind = "DuplicateName"
        /\ Done(u, "create") /\ task[u].out.kind = "InvalidName"
        /\ task[u].out.reason = ReasonFirst
        /\ applications # {}

\* C22: on a migrated store get(id) and get_by_name(name) return the stored
\* row whose id, respectively name, equals the argument when there is one,
\* and Ok(None) when there is none; no store operation returns NotFound.
C22_LookupsExactNeverNotFound ==
    [][\A t \in Tasks :
          /\ GetReturns(t) =>
                IF \E r \in applications : r.id = task'[t].id
                THEN /\ task'[t].res.kind = "Some"
                     /\ task'[t].res.row \in applications
                     /\ task'[t].res.row.id = task'[t].id
                ELSE task'[t].res = Result("None")
          /\ GetByNameReturns(t) =>
                IF \E r \in applications : r.name = task'[t].name
                THEN /\ task'[t].res.kind = "Some"
                     /\ task'[t].res.row \in applications
                     /\ task'[t].res.row.name = task'[t].name
                ELSE task'[t].res = Result("None")
          /\ task'[t].res.kind # "NotFound"]_vars

\* With one row stored, a get of its id returned that row and a get_by_name
\* of another name returned None.
C22_Witness ==
    \E t \in Tasks : \E u \in Tasks : \E r \in applications :
        /\ Done(t, "get") /\ task[t].id = r.id
        /\ task[t].res.kind = "Some" /\ task[t].res.row = r
        /\ Done(u, "get_by_name") /\ task[u].name # r.name
        /\ task[u].res = Result("None")

\* C23: a call of otter_list_apps, answered with a success or with an error,
\* leaves the applications table, its rows and the migration metadata as
\* they were; a call of otter_create_app answered with a success adds exactly
\* one row, the application of its payload, and changes nothing else stored.
C23_ListReadOnlyCreateAddsOne ==
    [][\A t \in Tasks :
          /\ ListReturns(t) =>
                UNCHANGED <<applicationsTable, applications,
                            migrationsTable, migrations>>
          /\ (CreateReturns(t) /\ task'[t].reply.ok) =>
                /\ task'[t].reply.application \notin applications
                /\ applications' =
                      applications \cup {task'[t].reply.application}
                /\ Cardinality(applications') = Cardinality(applications) + 1
                /\ UNCHANGED <<applicationsTable, migrationsTable,
                               migrations>>]_vars

\* A list on the fresh database was answered with an error, and after the
\* migration a create was answered with a success whose application is the
\* one stored row.
C23_Witness ==
    \E t \in Tasks : \E u \in Tasks :
        /\ Done(t, "list") /\ ~task[t].reply.ok
        /\ Done(u, "create") /\ task[u].reply.ok
        /\ applications = {task[u].reply.application}
        /\ Len(migrations) = 1

\* C24: for every input, the empty string included, validate_app_name
\* returns without panicking exactly one of accept and reject-with-reason,
\* the reason being one of the four rule texts; a further call with the same
\* input returns the same outcome and the same reason.
C24_ValidateTotalDeterministic ==
    /\ [](vOutcome # NotRun =>
             \/ vOutcome = OkUnit
             \/ \E reason \in {ReasonEmpty, ReasonLength,
                                ReasonFirst, ReasonCharset} :
                   vOutcome = InvalidName(reason))
    /\ [][ValidateAgain => vOutcome' = vOutcome]_vars

\* The empty string has been validated and was rejected as empty.
C24_Witness ==
    /\ vName = <<>>
    /\ vOutcome = InvalidName(ReasonEmpty)

\* C25: the name of a deleted application is free again: once create(n) has
\* stored a row and a delete of its id has removed it, a create(n) that
\* reaches the table while no row named n is stored succeeds, and its row
\* has an id that no deleted row had.
C25_NameFreeAfterDelete ==
    [][\A t \in Tasks :
          (/\ task[t].pc = "create_insert" /\ task'[t].pc = "done"
           /\ deleted # {}
           /\ ~\E r \in applications : r.name = task[t].name)
             => /\ task'[t].res.kind = "Ok"
                /\ task'[t].res.row.name = task[t].name
                /\ task'[t].res.row.id \notin deleted
                /\ task'[t].res.row \in applications']_vars

\* A delete returned true for the id of a row of the name, and a create of
\* the name issued after that row's has returned a stored row with a newer id.
C25_Witness ==
    \E t \in Tasks : \E u \in Tasks :
        /\ Done(u, "delete") /\ task[u].res.kind = "True"
        /\ task[u].id \in deleted
        /\ Done(t, "create") /\ task[t].res.kind = "Ok"
        /\ task[t].name = NameApp
        /\ task[t].res.row.id > task[u].id
        /\ task[t].res.row \in applications

\* C26: on the store whose migration has been applied, every migrate call,
\* whatever create, get, list and delete calls run before it or between its
\* statements, returns Ok, and no statement of it changes the applications
\* table or any of its rows.
C26_MigrateAgainKeepsRows ==
    /\ [](\A t \in Tasks : Done(t, "migrate") => task[t].res.kind = "Ok")
    /\ [][\A t \in Tasks :
             (InMigrate(t) /\ task'[t].pc # task[t].pc) =>
                 UNCHANGED <<applicationsTable, applications>>]_vars

\* A migrate call has returned Ok while an application is stored and the
\* INSERT of another create is still to run.
C26_Witness ==
    \E t \in Tasks : \E u \in Tasks :
        /\ Done(t, "migrate") /\ task[t].res.kind = "Ok"
        /\ applications # {}
        /\ task[u].pc = "create_insert"

DeleteWinners == {t \in DeleteRacers : task[t].res.kind = "True"}
DeleteLosers == {t \in DeleteRacers : task[t].res.kind = "False"}
DeleteRaceOver == \A t \in DeleteRacers : task[t].pc = "done"

\* C27: K >= 2 concurrent deletes of the id of one stored row: never two
\* return true, once one has returned true the row is absent, and once all
\* have returned exactly one returned true and the other K-1 false; no row
\* of another id is ever removed, so every row a create racing with them
\* has returned is stored.
C27_DeleteRaceOneWinner ==
    /\ Cardinality(DeleteWinners) <= 1
    /\ \A t \in DeleteRacers :
          task[t].pc = "done" => task[t].res.kind \in {"True", "False"}
    /\ DeleteWinners # {} => SelectById(1) = Result("None")
    /\ DeleteRaceOver => /\ Cardinality(DeleteWinners) = 1
                         /\ Cardinality(DeleteLosers)
                               = Cardinality(DeleteRacers) - 1
                         /\ SelectById(1) = Result("None")
    /\ deleted \subseteq {1}
    /\ \A t \in Tasks :
          (Done(t, "create") /\ task[t].res.kind = "Ok")
              => /\ task[t].res.row.id # 1
                 /\ task[t].res.row \in applications

\* A race of deletes has ended with one true and at least one false, and a
\* create by a caller outside the race has stored its row.
C27_Witness ==
    /\ DeleteRaceOver
    /\ Cardinality(DeleteLosers) >= 1
    /\ \E t \in Tasks : /\ Done(t, "create") /\ task[t].res.kind = "Ok"
                        /\ task[t].res.row \in applications

\* C28: while no migrate call has completed, that is while the migration is
\* not recorded, every create with an accepted name, get, get_by_name, list
\* and delete that returns returns DatabaseError, and a create with a
\* rejected name returns InvalidName with the reason of the validation.
C28_UnmigratedStoreErrors ==
    [][\A t \in Tasks :
          (/\ ~MigrationApplied
           /\ task'[t] # task[t]
           /\ task'[t].pc = "done"
           /\ task'[t].op \in ServiceOps)
             => IF task'[t].op = "create"
                   /\ validate_app_name(task'[t].name).kind # "Ok"
                THEN task'[t].res
                       = [Result("InvalidName") EXCEPT
                            !.reason = validate_app_name(task'[t].name).reason]
                ELSE task'[t].res.kind = "DatabaseError"]_vars

=============================================================================
